---- MODULE Spec2Model ----
(***************************************************************************)
(* Model of argon2_secure_kdf.py: randomize_salt (the salt expander) and   *)
(* derive_key (the key deriver), called from concurrent caller threads.    *)
(*                                                                         *)
(* Byte strings are sequences of integers 0..255, Python str values are    *)
(* sequences of code points.  The external collaborators (hashlib.sha256,  *)
(* hmac, argon2.low_level.hash_secret_raw) are not part of the repository: *)
(* sha256 and the Argon2 mixing function are replaced by deterministic     *)
(* stand-in digests of the right width, everything around them (HMAC's     *)
(* key padding and two passes, UTF-8 encoding, the primitive's parameter   *)
(* checks and its failure modes) is modelled as it is computed.            *)
(***************************************************************************)
EXTENDS Integers, Sequences, FiniteSets, TLC

(***************************************************************************)
(* Bounds of the model                                                     *)
(***************************************************************************)
\* the seeds handed to randomize_salt have lengths 0..MaxSeedLen (and the
\* example seed of the module has 9 bytes)
MaxSeedLen == 2
\* cap on the number of invocations of the external primitive per call
MaxKdfCalls == 3

Threads == {"t1", "t2"}

(***************************************************************************)
(* Bytes                                                                   *)
(***************************************************************************)
RECURSIVE XorByte(_, _)
\* bitwise exclusive or of two non-negative integers
XorByte(a, b) ==
    IF a = 0 THEN b
    ELSE IF b = 0 THEN a
    ELSE ((a + b) % 2) + 2 * XorByte(a \div 2, b \div 2)

\* bytes.translate(table) with table[x] = x ^ c
Translate(bs, c) == [i \in 1..Len(bs) |-> XorByte(bs[i], c)]

\* bytes.ljust(width, b"\0")
Ljust(bs, width) ==
    IF Len(bs) >= width THEN bs
    ELSE bs \o [i \in 1..(width - Len(bs)) |-> 0]

\* str.encode('utf-8') of one code point (surrogates are outside the model)
Utf8Char(cp) ==
    IF cp < 128 THEN <<cp>>
    ELSE IF cp < 2048 THEN <<192 + (cp \div 64), 128 + (cp % 64)>>
    ELSE IF cp < 65536 THEN
        <<224 + (cp \div 4096), 128 + ((cp \div 64) % 64), 128 + (cp % 64)>>
    ELSE <<240 + (cp \div 262144), 128 + ((cp \div 4096) % 64),
           128 + ((cp \div 64) % 64), 128 + (cp % 64)>>

RECURSIVE Utf8Encode(_)
\* password.encode('utf-8')
Utf8Encode(s) ==
    IF s = <<>> THEN <<>> ELSE Utf8Char(Head(s)) \o Utf8Encode(Tail(s))

(***************************************************************************)
(* hashlib.sha256 and hmac                                                 *)
(***************************************************************************)
\* width of a SHA-256 digest and of a SHA-256 input block, in bytes
digest_size == 32
block_size == 64

RECURSIVE Pow31(_)
\* 31^n modulo 32749
Pow31(n) ==
    IF n = 0 THEN 1
    ELSE LET h == Pow31(n \div 2)
         IN  (((h * h) % 32749) * (IF n % 2 = 1 THEN 31 ELSE 1)) % 32749

RECURSIVE Poly(_, _, _)
\* the bytes lo..hi of bs as a polynomial in 31, modulo 32749
Poly(bs, lo, hi) ==
    IF lo > hi THEN 0
    ELSE IF lo = hi THEN bs[lo] + 1
    ELSE LET mid == (lo + hi) \div 2
         IN  (Poly(bs, lo, mid) * Pow31(hi - mid) + Poly(bs, mid + 1, hi)) % 32749

\* stand-in for the compression of a byte string into a hash state: each
\* byte b takes the state acc to (31 * acc + b + 1) modulo 32749
Absorb(acc, bs) == (acc * Pow31(Len(bs)) + Poly(bs, 1, Len(bs))) % 32749

\* stand-in for the finalisation of a hash state into n bytes
Squeeze(acc, n) ==
    [i \in 1..n |->
        IF i % 2 = 0 THEN (acc + 251 * i) % 256
        ELSE ((acc + 251 * i) \div 256) % 256]

\* hashlib.sha256(data).digest()
sha256(data) == Squeeze(Absorb(27145 + Len(data), data), digest_size)

\* hmac.new(key, msg, hashlib.sha256): the HMAC object, as the bytes fed so
\* far to its inner and outer hash objects
hmac_new(key, msg) ==
    LET k0 == IF Len(key) > block_size THEN sha256(key) ELSE key
        k  == Ljust(k0, block_size)
    IN  [inner |-> Translate(k, 54) \o msg,
         outer |-> Translate(k, 92)]

\* HMAC.digest()
hmac_digest(h) == sha256(h.outer \o sha256(h.inner))

(***************************************************************************)
(* argon2.low_level.hash_secret_raw                                        *)
(***************************************************************************)
\* what a call leaves to its caller: nothing yet, a returned value, or a
\* raised exception (its class and its message)
NoOutcome == [status |-> "none", value |-> <<>>, exc |-> "", msg |-> ""]
Returned(v) == [status |-> "returned", value |-> v, exc |-> "", msg |-> ""]
Raised(e, m) == [status |-> "raised", value |-> <<>>, exc |-> e, msg |-> m]

\* the parameter checks of the Argon2 library, in its order; "" when the
\* parameters are accepted
argon2_validate(a) ==
    IF a.hash_len < 4 THEN "Output is too short"
    ELSE IF Len(a.salt) < 8 THEN "Salt is too short"
    ELSE IF a.memory_cost < 8 THEN "Memory cost is too small"
    ELSE IF a.memory_cost < 8 * a.parallelism THEN "Memory cost is too small"
    ELSE IF a.time_cost < 1 THEN "Time cost is too small"
    ELSE IF a.parallelism < 1 THEN "Too few lanes"
    ELSE ""

\* stand-in for the Argon2 mixing function: hash_len bytes that depend on
\* every input of the primitive
argon2_mix(a) ==
    LET variant == IF a.type = "ID" THEN 2 ELSE IF a.type = "I" THEN 1 ELSE 0
        hdr == <<a.parallelism % 256, a.hash_len % 256,
                 a.memory_cost % 256, (a.memory_cost \div 256) % 256,
                 (a.memory_cost \div 65536) % 256,
                 a.time_cost % 256, variant,
                 Len(a.secret) % 256, Len(a.salt) % 256>>
    IN  Squeeze(Absorb(Absorb(Absorb(4919, hdr), a.secret), a.salt), a.hash_len)

\* hash_secret_raw(secret, salt, time_cost, memory_cost, parallelism,
\* hash_len, type): the raw hash, or HashingError when the library reports
\* an error code; mem_ok tells whether the library got its working memory
hash_secret_raw(a, mem_ok) ==
    IF argon2_validate(a) # "" THEN Raised("HashingError", argon2_validate(a))
    ELSE IF ~mem_ok THEN Raised("HashingError", "Memory allocation error")
    ELSE Returned(argon2_mix(a))

(***************************************************************************)
(* randomize_salt and derive_key, statement by statement                   *)
(***************************************************************************)
\* the check of line 11 left out
randomize_salt_empty_never(user_salt) == FALSE

\* line 11: if not user_salt
randomize_salt_empty(user_salt) == Len(user_salt) = 0

\* the exception class of lines 12 and 28, the error kind of an empty input
InvalidInputError == "ValueError"

\* line 12: raise ValueError(...)
randomize_salt_error == Raised("ValueError", "User-provided salt must not be empty.")

\* the PRF fed with its own key instead of the seed
randomize_salt_prf_key_as_msg(user_salt) ==
    hmac_new(sha256(user_salt), sha256(user_salt))

\* line 15: prf = hmac.new(hashlib.sha256(user_salt).digest(), user_salt, hashlib.sha256)
randomize_salt_prf(user_salt) == hmac_new(sha256(user_salt), user_salt)

\* line 18: return prf.digest()
randomize_salt_return(h) == Returned(hmac_digest(h))

\* defaults of derive_key's signature
time_cost_default == 2
memory_cost_default == 102400
parallelism_default == 8
hash_len_default == 32

\* the check of line 27 left out
derive_key_empty_never(salt) == FALSE

\* line 27: if not salt
derive_key_empty(salt) == Len(salt) = 0

\* line 28: raise ValueError(...)
derive_key_error == Raised("ValueError", "Salt must be provided and cannot be empty.")

\* the hash_len argument dropped in favour of the signature's default
derive_key_kdf_args_default_len(password, salt, time_cost, memory_cost, parallelism, hash_len) ==
    [secret |-> Utf8Encode(password), salt |-> salt, time_cost |-> time_cost,
     memory_cost |-> memory_cost, parallelism |-> parallelism,
     hash_len |-> hash_len_default, type |-> "ID"]

\* lines 31-39: the arguments handed to hash_secret_raw
derive_key_kdf_args(password, salt, time_cost, memory_cost, parallelism, hash_len) ==
    [secret |-> Utf8Encode(password), salt |-> salt, time_cost |-> time_cost,
     memory_cost |-> memory_cost, parallelism |-> parallelism,
     hash_len |-> hash_len, type |-> "ID"]

\* line 41: return derived_key
derive_key_return(dk) == Returned(dk)

\* lines 15 and 31: prf and derived_key are assigned inside a function with
\* no global statement, so the names are bound in the frame of the call
randomize_salt_scope_module == "module"
randomize_salt_scope == "local"
derive_key_scope_module == "module"
derive_key_scope == "local"

\* randomize_salt run to completion on its own (lines 5-18)
RunRandomizeSalt(user_salt) ==
    IF randomize_salt_empty(user_salt) THEN randomize_salt_error
    ELSE randomize_salt_return(randomize_salt_prf(user_salt))

\* derive_key run to completion on its own (lines 20-41)
RunDeriveKey(password, salt, time_cost, memory_cost, parallelism, hash_len, mem_ok) ==
    IF derive_key_empty(salt) THEN derive_key_error
    ELSE LET out == hash_secret_raw(
                 derive_key_kdf_args(password, salt, time_cost, memory_cost,
                                     parallelism, hash_len), mem_ok)
         IN  IF out.status = "returned" THEN derive_key_return(out.value) ELSE out

(***************************************************************************)
(* Inputs                                                                  *)
(***************************************************************************)
\* "your_password_here" and b"User-ID-2" (lines 44-45)
ExamplePassword ==
    <<121, 111, 117, 114, 95, 112, 97, 115, 115, 119, 111, 114, 100, 95,
      104, 101, 114, 101>>
ExampleSeed == <<85, 115, 101, 114, 45, 73, 68, 45, 50>>

\* the example seed and the seeds "", "U", "UU", ...
Seeds == {ExampleSeed} \cup UNION {[1..n -> {85}] : n \in 0..MaxSeedLen}

\* the example password and "p" followed by U+00E9
Passwords == {ExamplePassword, <<112, 233>>}

\* time_cost, memory_cost, parallelism, hash_len of the calls
ParamSets ==
    { <<5, 65536, 4, 32>>,
      <<2, 102400, 8, 16>>,
      <<2, 102400, 8, 64>>,
      <<0, 65536, 4, 32>>,
      <<5, 65536, 0, 32>>,
      <<5, 0, 4, 32>>,
      <<5, 65536, 4, 0>> }

(***************************************************************************)
(* State                                                                   *)
(***************************************************************************)
VARIABLES
    pc,        \* per thread: where its current call stands
    args,      \* per thread: the function called and its arguments
    frame,     \* per thread: the local names prf and derived_key
    ret,       \* per thread: the outcome of its call
    kdfCalls,  \* per thread: invocations of hash_secret_raw by its call
    kdfIn,     \* per thread: the arguments of the last such invocation
    kdfOut,    \* per thread: what the last such invocation produced
    module     \* the module-level names (lines 44-53)

vars == <<pc, args, frame, ret, kdfCalls, kdfIn, kdfOut, module>>

NoPrf == [inner |-> <<>>, outer |-> <<>>]
NoFrame == [prf |-> NoPrf, derived_key |-> <<>>]
NoArgs ==
    [fn |-> "", user_salt |-> <<>>, password |-> <<>>, salt |-> <<>>,
     time_cost |-> 0, memory_cost |-> 0, parallelism |-> 0, hash_len |-> 0]
NoKdfIn ==
    [secret |-> <<>>, salt |-> <<>>, time_cost |-> 0, memory_cost |-> 0,
     parallelism |-> 0, hash_len |-> 0, type |-> ""]

\* the module after its import: the example usage has run (lines 44-53)
Init ==
    /\ pc = [t \in Threads |-> "idle"]
    /\ args = [t \in Threads |-> NoArgs]
    /\ frame = [t \in Threads |-> NoFrame]
    /\ ret = [t \in Threads |-> NoOutcome]
    /\ kdfCalls = [t \in Threads |-> 0]
    /\ kdfIn = [t \in Threads |-> NoKdfIn]
    /\ kdfOut = [t \in Threads |-> NoOutcome]
    /\ module =
         LET rs == RunRandomizeSalt(ExampleSeed).value
         IN  [password |-> ExamplePassword,
              user_salt |-> ExampleSeed,
              randomized_salt |-> rs,
              prf |-> NoPrf,
              derived_key |->
                  RunDeriveKey(ExamplePassword, rs, 5, 65536, 4, 32, TRUE).value]

(***************************************************************************)
(* Calls                                                                   *)
(***************************************************************************)
CanCall(t) == pc[t] \in {"idle", "done"}

Enter(t, a, first) ==
    /\ pc' = [pc EXCEPT ![t] = first]
    /\ args' = [args EXCEPT ![t] = a]
    /\ frame' = [frame EXCEPT ![t] = NoFrame]
    /\ ret' = [ret EXCEPT ![t] = NoOutcome]
    /\ kdfCalls' = [kdfCalls EXCEPT ![t] = 0]
    /\ kdfIn' = [kdfIn EXCEPT ![t] = NoKdfIn]
    /\ kdfOut' = [kdfOut EXCEPT ![t] = NoOutcome]
    /\ UNCHANGED module

\* randomize_salt(seed)
CallRandomizeSalt(t, seed) ==
    /\ CanCall(t)
    /\ Enter(t, [NoArgs EXCEPT !.fn = "randomize_salt", !.user_salt = seed],
             "rs_check")

\* the salts a caller passes to derive_key: none, one shorter than the
\* primitive accepts, the module's randomized_salt, or the salt its own
\* randomize_salt call has just returned
SaltsFor(t) ==
    {<<>>, <<1, 2, 3, 4>>, module.randomized_salt} \cup
    (IF pc[t] = "done" /\ args[t].fn = "randomize_salt"
        /\ ret[t].status = "returned"
     THEN {ret[t].value} ELSE {})

DeriveArgs(password, salt, p) ==
    [NoArgs EXCEPT !.fn = "derive_key", !.password = password, !.salt = salt,
                   !.time_cost = p[1], !.memory_cost = p[2],
                   !.parallelism = p[3], !.hash_len = p[4]]

\* derive_key(password, salt, time_cost=.., memory_cost=.., parallelism=.., hash_len=..)
CallDeriveKey(t, password, salt, p) ==
    /\ CanCall(t)
    /\ Enter(t, DeriveArgs(password, salt, p), "dk_check")

\* derive_key(password, salt): the defaults of the signature (lines 20-22)
CallDeriveKeyDefaults(t, password, salt) ==
    /\ CanCall(t)
    /\ Enter(t, DeriveArgs(password, salt,
                           <<time_cost_default, memory_cost_default,
                             parallelism_default, hash_len_default>>),
             "dk_check")

\* a call ends: its outcome is what the caller sees
Finish(t, out) ==
    /\ pc' = [pc EXCEPT ![t] = "done"]
    /\ ret' = [ret EXCEPT ![t] = out]

(***************************************************************************)
(* randomize_salt (lines 5-18)                                             *)
(***************************************************************************)
\* lines 11-12
RandomizeSaltCheck(t) ==
    /\ pc[t] = "rs_check"
    /\ IF randomize_salt_empty(args[t].user_salt)
       THEN Finish(t, randomize_salt_error)
       ELSE pc' = [pc EXCEPT ![t] = "rs_prf"] /\ UNCHANGED ret
    /\ UNCHANGED <<args, frame, kdfCalls, kdfIn, kdfOut, module>>

\* line 15
RandomizeSaltPrf(t) ==
    /\ pc[t] = "rs_prf"
    /\ IF randomize_salt_scope = "local"
       THEN /\ frame' = [frame EXCEPT ![t].prf = randomize_salt_prf(args[t].user_salt)]
            /\ UNCHANGED module
       ELSE /\ module' = [module EXCEPT !.prf = randomize_salt_prf(args[t].user_salt)]
            /\ UNCHANGED frame
    /\ pc' = [pc EXCEPT ![t] = "rs_return"]
    /\ UNCHANGED <<args, ret, kdfCalls, kdfIn, kdfOut>>

\* line 18
RandomizeSaltReturn(t) ==
    /\ pc[t] = "rs_return"
    /\ Finish(t, randomize_salt_return(
                   IF randomize_salt_scope = "local" THEN frame[t].prf
                   ELSE module.prf))
    /\ UNCHANGED <<args, frame, kdfCalls, kdfIn, kdfOut, module>>

(***************************************************************************)
(* derive_key (lines 20-41)                                                *)
(***************************************************************************)
\* lines 27-28
DeriveKeyCheck(t) ==
    /\ pc[t] = "dk_check"
    /\ IF derive_key_empty(args[t].salt)
       THEN Finish(t, derive_key_error)
       ELSE pc' = [pc EXCEPT ![t] = "dk_hash"] /\ UNCHANGED ret
    /\ UNCHANGED <<args, frame, kdfCalls, kdfIn, kdfOut, module>>

\* a handler that swallows the failure and invokes the primitive again
derive_key_on_failure_retry(t, out) == pc' = pc /\ ret' = ret

\* after a failed invocation of the primitive: the exception leaves
\* derive_key, which has no handler (lines 31-39)
derive_key_on_failure(t, out) == Finish(t, out)

\* lines 31-39: one invocation of hash_secret_raw; whether the primitive gets
\* its working memory is the environment's choice
DeriveKeyHash(t) ==
    /\ pc[t] = "dk_hash"
    /\ kdfCalls[t] < MaxKdfCalls
    /\ \E mem_ok \in BOOLEAN :
         LET a == derive_key_kdf_args(args[t].password, args[t].salt,
                                      args[t].time_cost, args[t].memory_cost,
                                      args[t].parallelism, args[t].hash_len)
             out == hash_secret_raw(a, mem_ok)
         IN  /\ kdfCalls' = [kdfCalls EXCEPT ![t] = @ + 1]
             /\ kdfIn' = [kdfIn EXCEPT ![t] = a]
             /\ kdfOut' = [kdfOut EXCEPT ![t] = out]
             /\ IF out.status = "returned"
                THEN /\ pc' = [pc EXCEPT ![t] = "dk_return"]
                     /\ UNCHANGED ret
                     /\ IF derive_key_scope = "local"
                        THEN /\ frame' = [frame EXCEPT ![t].derived_key = out.value]
                             /\ UNCHANGED module
                        ELSE /\ module' = [module EXCEPT !.derived_key = out.value]
                             /\ UNCHANGED frame
                ELSE /\ derive_key_on_failure(t, out)
                     /\ UNCHANGED <<frame, module>>
    /\ UNCHANGED args

\* line 41
DeriveKeyReturn(t) ==
    /\ pc[t] = "dk_return"
    /\ Finish(t, derive_key_return(
                   IF derive_key_scope = "local" THEN frame[t].derived_key
                   ELSE module.derived_key))
    /\ UNCHANGED <<args, frame, kdfCalls, kdfIn, kdfOut, module>>

Next ==
    \E t \in Threads :
        \/ \E seed \in Seeds : CallRandomizeSalt(t, seed)
        \/ \E password \in Passwords, salt \in SaltsFor(t), p \in ParamSets :
               CallDeriveKey(t, password, salt, p)
        \/ \E password \in Passwords, salt \in SaltsFor(t) :
               CallDeriveKeyDefaults(t, password, salt)
        \/ RandomizeSaltCheck(t)
        \/ RandomizeSaltPrf(t)
        \/ RandomizeSaltReturn(t)
        \/ DeriveKeyCheck(t)
        \/ DeriveKeyHash(t)
        \/ DeriveKeyReturn(t)

Spec == Init /\ [][Next]_vars

TypeOK ==
    /\ pc \in [Threads -> {"idle", "rs_check", "rs_prf", "rs_return",
                           "dk_check", "dk_hash", "dk_return", "done"}]
    /\ \A t \in Threads : kdfCalls[t] \in 0..MaxKdfCalls

(***************************************************************************)
(* Properties                                                              *)
(***************************************************************************)
Done(t, f) == pc[t] = "done" /\ args[t].fn = f

SameDeriveArgs(a, b) ==
    /\ a.password = b.password /\ a.salt = b.salt
    /\ a.time_cost = b.time_cost /\ a.memory_cost = b.memory_cost
    /\ a.parallelism = b.parallelism /\ a.hash_len = b.hash_len

NonPositiveParam(a) ==
    a.time_cost <= 0 \/ a.memory_cost <= 0 \/ a.parallelism <= 0 \/ a.hash_len <= 0

AllocationFailed(t) ==
    kdfOut[t] = Raised("HashingError", "Memory allocation error")

\* C1: randomize_salt called with an empty seed ends with the error of an
\* invalid input and returns no salt (it never reaches the PRF); called with
\* a non-empty seed it never fails.
C1_EmptySeedRejected ==
    \A t \in Threads :
        /\ (args[t].fn = "randomize_salt" /\ pc[t] \in {"rs_prf", "rs_return"})
               => Len(args[t].user_salt) > 0
        /\ Done(t, "randomize_salt") =>
               IF Len(args[t].user_salt) = 0
               THEN /\ ret[t].status = "raised"
                    /\ ret[t].exc = InvalidInputError
                    /\ ret[t].value = <<>>
               ELSE ret[t].status = "returned"

C1_Witness ==
    \E t, u \in Threads :
        /\ Done(t, "randomize_salt") /\ args[t].user_salt = <<>>
        /\ ret[t].status = "raised"
        /\ Done(u, "randomize_salt") /\ Len(args[u].user_salt) > 0
        /\ ret[u].status = "returned"

\* C2: derive_key called with an empty salt ends with the error of an
\* invalid input, whatever the password and the parameters, and the external
\* primitive has not been invoked by then.
C2_EmptySaltRejected ==
    \A t \in Threads :
        (args[t].fn = "derive_key" /\ Len(args[t].salt) = 0) =>
            /\ kdfCalls[t] = 0
            /\ pc[t] \in {"dk_check", "done"}
            /\ pc[t] = "done" =>
                   /\ ret[t].status = "raised"
                   /\ ret[t].exc = InvalidInputError

C2_Witness ==
    \E t, u \in Threads :
        /\ Done(t, "derive_key") /\ args[t].salt = <<>>
        /\ args[t].time_cost = 0 /\ ret[t].exc = InvalidInputError
        /\ Done(u, "derive_key") /\ args[u].salt = <<>>
        /\ ~NonPositiveParam(args[u]) /\ args[u].password # args[t].password
        /\ ret[u].exc = InvalidInputError /\ kdfCalls[u] = 0

\* C3: derive_key called with a non-empty salt and a non-positive time_cost,
\* memory_cost, parallelism or hash_len validates the parameters before it
\* uses them: the external primitive is never invoked with them, and the call
\* ends with an error, of a kind other than that of an invalid input, and
\* returns no key.
C3_InvalidParamsRejected ==
    \A t \in Threads :
        (args[t].fn = "derive_key" /\ Len(args[t].salt) > 0
         /\ NonPositiveParam(args[t])) =>
            /\ kdfCalls[t] = 0
            /\ pc[t] = "done" =>
                   /\ ret[t].status = "raised"
                   /\ ret[t].exc # InvalidInputError

\* C4: when the external primitive fails to allocate its memory, the caller
\* of derive_key sees an error (the failure is not swallowed) whose kind is
\* neither the kind of an invalid input nor the kind that reports invalid
\* parameters.
C4_ResourceExhaustedDistinguishable ==
    \A t \in Threads :
        (Done(t, "derive_key") /\ AllocationFailed(t)) =>
            /\ ret[t].status = "raised"
            /\ ret[t].exc # InvalidInputError
            /\ \A u \in Threads :
                   (Done(u, "derive_key") /\ Len(args[u].salt) > 0
                    /\ NonPositiveParam(args[u]) /\ ret[u].status = "raised")
                       => ret[u].exc # ret[t].exc

\* C5: two successful derive_key calls with the same password, salt,
\* time_cost, memory_cost, parallelism and hash_len return the same key,
\* whatever was called before or between them; this includes the call made
\* when the module was imported.
C5_DeriveDeterministic ==
    \A t \in Threads :
        (Done(t, "derive_key") /\ ret[t].status = "returned") =>
            /\ \A u \in Threads :
                   (Done(u, "derive_key") /\ ret[u].status = "returned"
                    /\ SameDeriveArgs(args[t], args[u]))
                       => ret[u].value = ret[t].value
            /\ SameDeriveArgs(args[t],
                   DeriveArgs(ExamplePassword, module.randomized_salt,
                              <<5, 65536, 4, 32>>))
                   => ret[t].value = module.derived_key

C5_Witness ==
    \E t, u \in Threads :
        /\ t # u
        /\ Done(t, "derive_key") /\ ret[t].status = "returned"
        /\ Done(u, "derive_key") /\ ret[u].status = "returned"
        /\ SameDeriveArgs(args[t], args[u])
        /\ args[t].salt # module.randomized_salt
        /\ Len(ret[t].value) > 0

\* the steps of randomize_salt change nothing but the calling thread's own
\* position, frame and outcome
RandomizeSaltStepIsLocal(t) ==
    (RandomizeSaltCheck(t) \/ RandomizeSaltPrf(t) \/ RandomizeSaltReturn(t)) =>
        /\ module' = module
        /\ args' = args /\ kdfCalls' = kdfCalls /\ kdfIn' = kdfIn
        /\ kdfOut' = kdfOut
        /\ \A u \in Threads \ {t} :
               pc'[u] = pc[u] /\ frame'[u] = frame[u] /\ ret'[u] = ret[u]

SameSeedSameSalt ==
    \A t \in Threads :
        (Done(t, "randomize_salt") /\ ret[t].status = "returned") =>
            /\ \A u \in Threads :
                   (Done(u, "randomize_salt") /\ ret[u].status = "returned"
                    /\ args[u].user_salt = args[t].user_salt)
                       => ret[u].value = ret[t].value
            /\ args[t].user_salt = module.user_salt
                   => ret[t].value = module.randomized_salt

\* C6: two randomize_salt calls with the same non-empty seed return the same
\* salt, whatever was called before or between them (the call made at import
\* included), and no step of randomize_salt changes state that a later call
\* or another thread can see.
C6_ExpandDeterministicPure ==
    /\ []SameSeedSameSalt
    /\ [][\A t \in Threads : RandomizeSaltStepIsLocal(t)]_vars

C6_Witness ==
    \E t, u \in Threads :
        /\ t # u
        /\ Done(t, "randomize_salt") /\ ret[t].status = "returned"
        /\ Done(u, "randomize_salt") /\ ret[u].status = "returned"
        /\ args[u].user_salt = args[t].user_salt
        /\ args[t].user_salt # module.user_salt

\* C7: a successful derive_key call returns a key of exactly hash_len bytes,
\* hash_len being the argument of the call (16, 32, 64, or the default 32),
\* whatever the salt's length and the other parameters.
C7_KeyLength ==
    \A t \in Threads :
        (Done(t, "derive_key") /\ ret[t].status = "returned") =>
            Len(ret[t].value) = args[t].hash_len

C7_Witness ==
    \E t, u \in Threads :
        /\ Done(t, "derive_key") /\ ret[t].status = "returned"
        /\ args[t].hash_len = 16 /\ Len(ret[t].value) = 16
        /\ Done(u, "derive_key") /\ ret[u].status = "returned"
        /\ args[u].hash_len = 64 /\ Len(ret[u].value) = 64

\* the outcomes derive_key has when it runs alone: with and without the
\* primitive getting its memory
DeriveAlone(a) ==
    {RunDeriveKey(a.password, a.salt, a.time_cost, a.memory_cost,
                  a.parallelism, a.hash_len, m) : m \in BOOLEAN}

\* C8: under every interleaving of concurrent derive_key calls, the outcome
\* of each call (key or error) is an outcome the call has when it runs alone,
\* and the key a call holds before it returns is its own.
C8_ConcurrentAsAlone ==
    \A t \in Threads :
        /\ Done(t, "derive_key") => ret[t] \in DeriveAlone(args[t])
        /\ pc[t] = "dk_return" =>
               Returned(frame[t].derived_key) \in DeriveAlone(args[t])

C8_Witness ==
    \E t, u \in Threads :
        /\ t # u
        /\ Done(t, "derive_key") /\ ret[t].status = "returned"
        /\ pc[u] = "dk_return"
        /\ ~SameDeriveArgs(args[t], args[u])
        /\ frame[u].derived_key # ret[t].value

\* a failing step ends the call at once, with the error of that step
FailureEndsCall(t) ==
    /\ (pc[t] = "dk_check" /\ pc'[t] # "dk_check" /\ Len(args[t].salt) = 0)
           => pc'[t] = "done" /\ ret'[t] = derive_key_error
    /\ (pc[t] = "dk_hash" /\ kdfCalls'[t] # kdfCalls[t]
        /\ kdfOut'[t].status = "raised")
           => pc'[t] = "done" /\ ret'[t] = kdfOut'[t]

AtMostOneInvocation ==
    \A t \in Threads :
        /\ kdfCalls[t] <= 1
        /\ (Done(t, "derive_key") /\ ret[t].status = "raised") =>
               /\ ret[t].value = <<>>
               /\ frame[t].derived_key = <<>>
               /\ kdfCalls[t] = 1 => ret[t] = kdfOut[t]

\* C9: a derive_key call invokes the external primitive at most once; when
\* the salt check or the primitive fails, the call ends with that error in
\* the same step, without another attempt and without a key.
C9_AllOrNothing ==
    /\ []AtMostOneInvocation
    /\ [][\A t \in Threads : FailureEndsCall(t)]_vars

C9_Witness ==
    \E t, u \in Threads :
        /\ Done(t, "derive_key") /\ AllocationFailed(t)
        /\ ret[t].status = "raised" /\ kdfCalls[t] = 1
        /\ Done(u, "derive_key") /\ args[u].salt = <<>>
        /\ ret[u].status = "raised" /\ kdfCalls[u] = 0

\* the keyed PRF of the specification: HMAC over Hash, key K, message m
KeyedPRF(K, m) ==
    LET padded == K \o [i \in 1..(block_size - Len(K)) |-> 0]
        ipad == [i \in 1..block_size |-> XorByte(padded[i], 54)]
        opad == [i \in 1..block_size |-> XorByte(padded[i], 92)]
    IN  sha256(opad \o sha256(ipad \o m))

====
